---- MODULE Spec2Model ----
(***************************************************************************)
(* Model of app.py: the appointment store of a hair salon (one JSON file   *)
(* rewritten in full by every mutating request), its booking, status,      *)
(* cleanup and reminder handlers, and the phone normalisation helper.      *)
(*                                                                         *)
(* Python values are modelled as follows.  A str that the code inspects    *)
(* character by character (dates, phones) is a sequence of one-character   *)
(* strings; a str that the code only compares (time, status) is a TLA+     *)
(* string.  A dict is a function from its keys, so "key in data" is        *)
(* membership in DOMAIN.  A date is the integer yyyymmdd, and the None a   *)
(* helper returns is NoDate (for a date) or NoPhone (for a phone).         *)
(***************************************************************************)
EXTENDS Integers, Sequences, FiniteSets, TLC

VARIABLES
    app_file,       \* contents of appointments.json: a sequence of dicts
    response,       \* the HTTP response of the last request
    sends,          \* calls of send_whatsapp_message made by the last request
    raw,            \* SpecPhone: the argument of normalize_phone
    phone_norm,     \* SpecPhone: what normalize_phone returned for it
    pc,             \* SpecRace: where each in-flight booking request stands
    appointments,   \* SpecRace: each request's list as it loaded it (line 146)
    data,           \* SpecRace: each request's JSON body
    writers         \* SpecRace: the requests that saved, in the order they did

storeVars == <<app_file, response, sends>>
phoneVars == <<raw, phone_norm>>
raceVars  == <<pc, appointments, data, writers>>
vars      == <<app_file, response, sends, raw, phone_norm,
               pc, appointments, data, writers>>

----------------------------------------------------------------------------
(* Bounds of the model. *)

MaxId == 3
MaxPhoneLen == 4

Ids == 1..MaxId

----------------------------------------------------------------------------
(* Python strings and dicts. *)

Digits == {"0", "1", "2", "3", "4", "5", "6", "7", "8", "9"}

isdigit(ch) == ch \in Digits

DigitVal(ch) ==
    CASE ch = "0" -> 0 [] ch = "1" -> 1 [] ch = "2" -> 2 [] ch = "3" -> 3
      [] ch = "4" -> 4 [] ch = "5" -> 5 [] ch = "6" -> 6 [] ch = "7" -> 7
      [] ch = "8" -> 8 [] ch = "9" -> 9

startswith(s, prefix) ==
    /\ Len(s) >= Len(prefix)
    /\ SubSeq(s, 1, Len(prefix)) = prefix

\* "".join(ch for ch in s if keep(ch))
RECURSIVE Filter(_, _)
Filter(s, keep) ==
    IF s = <<>> THEN <<>>
    ELSE (IF Head(s) \in keep THEN <<Head(s)>> ELSE <<>>) \o Filter(Tail(s), keep)

\* s.replace(ch, "")
RECURSIVE replace(_, _)
replace(s, ch) ==
    IF s = <<>> THEN <<>>
    ELSE (IF Head(s) = ch THEN <<>> ELSE <<Head(s)>>) \o replace(Tail(s), ch)

RECURSIVE lstrip(_)
lstrip(s) ==
    IF s # <<>> /\ Head(s) = " " THEN lstrip(Tail(s)) ELSE s

RECURSIVE rstrip(_)
rstrip(s) ==
    IF s # <<>> /\ s[Len(s)] = " " THEN rstrip(SubSeq(s, 1, Len(s) - 1)) ELSE s

strip(s) == rstrip(lstrip(s))

\* d.get(k, default)
Get(d, k, default) == IF k \in DOMAIN d THEN d[k] ELSE default

\* d[k] = v
Put(d, k, v) == [x \in DOMAIN d \cup {k} |-> IF x = k THEN v ELSE d[x]]

\* Python's None where it is compared with a str
None == "<None>"

----------------------------------------------------------------------------
(* parse_date_only and datetime.fromisoformat(...).date() *)

NoDate == 0

IsLeap(y) == (y % 4 = 0 /\ y % 100 # 0) \/ y % 400 = 0

DaysInMonth(y, m) ==
    IF m = 2 THEN (IF IsLeap(y) THEN 29 ELSE 28)
    ELSE IF m \in {4, 6, 9, 11} THEN 30 ELSE 31

AllDigits(s) == \A i \in 1..Len(s) : isdigit(s[i])

RECURSIVE Num(_)
Num(s) == IF s = <<>> THEN 0 ELSE 10 * Num(SubSeq(s, 1, Len(s) - 1)) + DigitVal(s[Len(s)])

\* the time part HH[:MM[:SS[.fff[fff]]]] of an ISO string, without offset
IsoTimeOk(t) ==
    LET two(i) == Len(t) >= i + 1 /\ AllDigits(SubSeq(t, i, i + 1))
        hh == two(1) /\ Num(SubSeq(t, 1, 2)) < 24
        mm == t[3] = ":" /\ two(4) /\ Num(SubSeq(t, 4, 5)) < 60
        ss == t[6] = ":" /\ two(7) /\ Num(SubSeq(t, 7, 8)) < 60
        ff == t[9] = "." /\ AllDigits(SubSeq(t, 10, Len(t)))
    IN  \/ Len(t) = 2 /\ hh
        \/ Len(t) = 5 /\ hh /\ mm
        \/ Len(t) = 8 /\ hh /\ mm /\ ss
        \/ Len(t) \in {12, 15} /\ hh /\ mm /\ ss /\ ff

\* datetime.fromisoformat(s).date(); NoDate where it raises ValueError
fromisoformat_date(s) ==
    IF /\ Len(s) >= 10
       /\ AllDigits(SubSeq(s, 1, 4)) /\ s[5] = "-"
       /\ AllDigits(SubSeq(s, 6, 7)) /\ s[8] = "-"
       /\ AllDigits(SubSeq(s, 9, 10))
       /\ (Len(s) = 10 \/ (Len(s) > 11 /\ IsoTimeOk(SubSeq(s, 12, Len(s)))))
    THEN LET y == Num(SubSeq(s, 1, 4))
             m == Num(SubSeq(s, 6, 7))
             d == Num(SubSeq(s, 9, 10))
         IN  IF y >= 1 /\ m \in 1..12 /\ d >= 1 /\ d <= DaysInMonth(y, m)
             THEN y * 10000 + m * 100 + d
             ELSE NoDate
    ELSE NoDate

\* The date strings of the requests below, parsed once: parse_date_only looks
\* a string up here before it parses, which changes no result.
Oct15  == <<"2", "0", "2", "5", "-", "1", "0", "-", "1", "5">>
Oct15Z == Oct15 \o <<"T", "1", "4", ":", "0", "0", ":", "0", "0", ".", "0", "0", "0", "Z">>
Nov01  == <<"2", "0", "2", "5", "-", "1", "1", "-", "0", "1">>
Nov01Z == Nov01 \o <<"T", "1", "4", ":", "0", "0", ":", "0", "0", ".", "0", "0", "0", "Z">>
Dec04  == <<"2", "0", "2", "5", "-", "1", "2", "-", "0", "4">>
BadDate == <<"b", "a", "d">>

Parsed ==
    [s \in {Oct15, Oct15Z, Nov01, Nov01Z, Dec04, BadDate} |->
        fromisoformat_date(replace(s, "Z"))]

parse_date_only(value) ==
    IF value = <<>> THEN NoDate
    ELSE IF value \in DOMAIN Parsed THEN Parsed[value]
    ELSE fromisoformat_date(replace(value, "Z"))

----------------------------------------------------------------------------
(* normalize_phone *)

NoPhone == <<>>

default_country == <<"5", "4">>

normalize_phone(r) ==
    IF r = <<>> THEN NoPhone
    ELSE LET digits == Filter(r, Digits)
             d2 == IF startswith(digits, <<"0", "0">>)
                   THEN SubSeq(digits, 3, Len(digits)) ELSE digits
             d3 == IF startswith(d2, <<"0">>) /\ Len(d2) >= 10
                   THEN Tail(d2) ELSE d2
         IN  IF digits = <<>> THEN NoPhone
             ELSE IF startswith(d2, default_country) THEN d2
             ELSE default_country \o d3

----------------------------------------------------------------------------
(* The appointment handlers: pieces shared by the sequential and the       *)
(* interleaved specification.                                              *)

required_fields ==
    {"id", "serviceId", "stylistId", "serviceName", "stylistName",
     "dateISO", "time", "clientName", "clientContact", "price"}

has_required(d) == \A f \in required_fields : f \in DOMAIN d

\* a.get("dateISO") or a.get("date")
date_str(a) ==
    LET iso == Get(a, "dateISO", <<>>)
    IN  IF iso # <<>> THEN iso ELSE Get(a, "date", <<>>)

\* truthiness of a time value: neither None nor ""
Truthy(t) == t \notin {None, ""}

\* lines 161-163: the body with its derived clientContactNormalized
with_normalized(d) ==
    Put(d, "clientContactNormalized", normalize_phone(strip(d.clientContact)))

\* lines 171-185: the records counted against the candidate's slot
same_slot(appts, new_date_only, new_time) ==
    {i \in 1..Len(appts) :
        LET appt_date_only == parse_date_only(date_str(appts[i]))
            appt_time == Get(appts[i], "time", None)
        IN  /\ appt_date_only # NoDate /\ Truthy(appt_time)
            /\ appt_date_only = new_date_only
            /\ appt_time = new_time
            /\ Get(appts[i], "status", "pendiente") # "cancelado"}

\* slot_full with the cancelled records of the slot counted too
slot_full_CountsCancelled(appts, d) ==
    LET new_date_only == parse_date_only(date_str(d))
        new_time == Get(d, "time", None)
        same == {i \in 1..Len(appts) :
                    /\ parse_date_only(date_str(appts[i])) = new_date_only
                    /\ Get(appts[i], "time", None) = new_time}
    IN  /\ new_date_only # NoDate /\ Truthy(new_time)
        /\ Cardinality(same) >= 2

\* lines 165-190: whether the booking is refused because its slot is full
slot_full(appts, d) ==
    LET new_date_only == parse_date_only(date_str(d))
        new_time == Get(d, "time", None)
    IN  /\ new_date_only # NoDate /\ Truthy(new_time)
        /\ Cardinality(same_slot(appts, new_date_only, new_time)) >= 2

\* next((i for i, a in enumerate(appts) if a.get("id") == id), None); 0 is None
index_of(appts, id) ==
    LET hits == {i \in 1..Len(appts) : Get(appts[i], "id", None) = id}
    IN  IF hits = {} THEN 0 ELSE CHOOSE i \in hits : \A j \in hits : i <= j

\* upsert without the search for the id: the body is always appended
upsert_AlwaysAppends(appts, d) ==
    Append(appts, IF "status" \notin DOMAIN d
                  THEN Put(d, "status", "pendiente") ELSE d)

\* lines 192-202: replace the record with the body's id, or append the body
upsert(appts, d) ==
    LET existing_idx == index_of(appts, d.id)
    IN  IF existing_idx # 0
        THEN [appts EXCEPT ![existing_idx] = d]
        ELSE Append(appts, IF "status" \notin DOMAIN d
                           THEN Put(d, "status", "pendiente") ELSE d)

valid_status == {"pendiente", "confirmado", "cancelado"}

\* kept_indices with "d <= limit" for "d < limit"
kept_indices_Inclusive(appts, limit) ==
    {i \in 1..Len(appts) :
        LET d == parse_date_only(date_str(appts[i]))
        IN  d = NoDate \/ ~(d <= limit)}

\* lines 249-259: the records cleanup keeps, as indices of the stored list
kept_indices(appts, limit) ==
    {i \in 1..Len(appts) :
        LET d == parse_date_only(date_str(appts[i]))
        IN  d = NoDate \/ ~(d < limit)}

\* the subsequence of s at the indices in keep, in order
RECURSIVE Select(_, _, _)
Select(s, keep, i) ==
    IF i > Len(s) THEN <<>>
    ELSE (IF i \in keep THEN <<s[i]>> ELSE <<>>) \o Select(s, keep, i + 1)

----------------------------------------------------------------------------
(* The requests the model sends. *)

\* the required fields the handlers store and never read
Base ==
    [serviceId |-> 1, stylistId |-> 1, serviceName |-> "Corte Caballero",
     stylistName |-> "Danilo Dandelo", clientName |-> "Ana", price |-> 15000]

Body(id, dateISO, time, contact) ==
    Base @@ [id |-> id, dateISO |-> dateISO, time |-> time, clientContact |-> contact]

Absent == "<absent>"

\* the body with "status": s, or without the key
WithStatus(b, s) == IF s = Absent THEN b ELSE Put(b, "status", s)

Phone11 == <<" ", "1", "1">>
NoDigits == <<"-">>

\* date, time and contact of the bookings sent: a day written with a time of
\* day and a Z, another day held by the legacy "date" key behind an empty
\* dateISO, an unparsable date, and an empty time
Forms ==
    { Body(0, Oct15Z, "14:00", Phone11),
      Put(Body(0, <<>>, "14:00", Phone11), "date", Nov01),
      Body(0, BadDate, "14:00", Phone11),
      Body(0, Oct15, "", Phone11) }

\* a body that lacks required fields
Incomplete == [id |-> 1, dateISO |-> Oct15, time |-> "14:00"]

\* every form without a status, one form with a status outside the
\* enumerated three, and the incomplete body
PostBodies ==
    { Put(f, "id", id) : f \in Forms, id \in Ids }
    \cup { Put(Body(id, Oct15Z, "14:00", Phone11), "status", "otro") : id \in Ids }
    \cup { Incomplete }

PatchPayloads ==
    { [status |-> s] : s \in {"pendiente", "cancelado"} } \cup { <<>> }

CleanupBodies ==
    { [before |-> b] : b \in {Nov01, Dec04, BadDate} } \cup { <<>> }

\* the bookings of the reminder specification: what a reminder reads is the
\* date, the status and the contact
ReminderForms ==
    { WithStatus(Body(0, Oct15Z, "14:00", Phone11), Absent),
      WithStatus(Body(0, Oct15Z, "14:00", Phone11), "confirmado"),
      WithStatus(Body(0, Oct15Z, "14:00", Phone11), "cancelado"),
      WithStatus(Body(0, Oct15, "14:00", NoDigits), Absent),
      WithStatus(Body(0, Oct15, "14:00", NoDigits), "cancelado"),
      WithStatus(Body(0, Nov01, "14:00", Phone11), Absent),
      WithStatus(Body(0, BadDate, "14:00", Phone11), Absent) }

ReminderPostBodies == { Put(f, "id", id) : f \in ReminderForms, id \in Ids }

ReminderBodies ==
    { [date |-> Oct15, only_confirmed |-> TRUE], [date |-> BadDate], <<>> }

\* datetime.utcnow().date(), the target of a reminder request without a date
Today == {fromisoformat_date(Oct15)}

----------------------------------------------------------------------------
(* The handlers.  Each is an operator from the file it loads and the       *)
(* request to the response and the file it leaves; a response is modelled  *)
(* by its status code and, of its JSON body, the error text, the counts or *)
(* the id of the record it returns.                                        *)

SlotFullError == "Ya hay 2 turnos agendados para esa fecha y hora."

\* appointments_collection with the upsert and the save before the capacity
\* check
appointments_collection_SavesFirst(file, body) ==
    IF ~has_required(body)
    THEN [response |-> [code |-> 400, error |-> "Datos incompletos"],
          file |-> file]
    ELSE LET d == with_normalized(body)
         IN  IF slot_full(file, d)
             THEN [response |-> [code |-> 400, error |-> SlotFullError],
                   file |-> upsert(file, d)]
             ELSE [response |-> [code |-> 201, id |-> d.id],
                   file |-> upsert(file, d)]

\* lines 144-205, method POST
appointments_collection(file, body) ==
    IF ~has_required(body)
    THEN [response |-> [code |-> 400, error |-> "Datos incompletos"],
          file |-> file]
    ELSE LET d == with_normalized(body)
         IN  IF slot_full(file, d)
             THEN [response |-> [code |-> 400, error |-> SlotFullError],
                   file |-> file]
             ELSE [response |-> [code |-> 201, id |-> d.id],
                   file |-> upsert(file, d)]

\* update_appointment storing the status in every record
update_appointment_AllRecords(file, appt_id, payload) ==
    LET idx == index_of(file, appt_id)
        status == Get(payload, "status", None)
    IN  IF idx = 0
        THEN [response |-> [code |-> 404, error |-> "Turno no encontrado"],
              file |-> file]
        ELSE IF status \notin valid_status
        THEN [response |-> [code |-> 400, error |-> "Estado invalido"],
              file |-> file]
        ELSE [response |-> [code |-> 200, id |-> appt_id],
              file |-> [i \in 1..Len(file) |-> Put(file[i], "status", status)]]

\* lines 208-225
update_appointment(file, appt_id, payload) ==
    LET idx == index_of(file, appt_id)
        status == Get(payload, "status", None)
    IN  IF idx = 0
        THEN [response |-> [code |-> 404, error |-> "Turno no encontrado"],
              file |-> file]
        ELSE IF status \notin valid_status
        THEN [response |-> [code |-> 400, error |-> "Estado invalido"],
              file |-> file]
        ELSE [response |-> [code |-> 200, id |-> appt_id],
              file |-> [file EXCEPT ![idx] = Put(@, "status", status)]]

\* lines 228-262
cleanup_appointments(file, body) ==
    LET before == Get(body, "before", <<>>)
        limit == fromisoformat_date(before)
        keep == kept_indices(file, limit)
    IN  IF before = <<>>
        THEN [response |-> [code |-> 400,
                            error |-> "Campo 'before' requerido (YYYY-MM-DD)"],
              file |-> file]
        ELSE IF limit = NoDate
        THEN [response |-> [code |-> 400, error |-> "Formato de fecha invalido"],
              file |-> file]
        ELSE [response |-> [code |-> 200,
                            removed |-> Len(file) - Cardinality(keep),
                            kept |-> Cardinality(keep)],
              file |-> Select(file, keep, 1)]

\* lines 408-409: the phone a reminder for the record is sent to
phone_of(appt) ==
    LET stored == Get(appt, "clientContactNormalized", NoPhone)
    IN  IF stored # NoPhone THEN stored
        ELSE normalize_phone(Get(appt, "clientContact", <<>>))

\* outcome with the test for a cancelled record left out
outcome_SendsCancelled(appt, target_date, only_confirmed) ==
    LET appt_date_only == parse_date_only(date_str(appt))
        status == Get(appt, "status", "pendiente")
    IN  IF appt_date_only # target_date THEN "other_date"
        ELSE IF only_confirmed /\ status # "confirmado" THEN "skipped_status"
        ELSE IF phone_of(appt) = NoPhone THEN "skipped_no_phone"
        ELSE "send"

\* lines 395-411: what the reminder loop does with one record
outcome(appt, target_date, only_confirmed) ==
    LET appt_date_only == parse_date_only(date_str(appt))
        status == Get(appt, "status", "pendiente")
    IN  IF appt_date_only # target_date THEN "other_date"
        ELSE IF status = "cancelado" THEN "skipped_status"
        ELSE IF only_confirmed /\ status # "confirmado" THEN "skipped_status"
        ELSE IF phone_of(appt) = NoPhone THEN "skipped_no_phone"
        ELSE "send"

\* lines 390-427: the loop from record i on; oks[i] is what
\* send_whatsapp_message returns when it is called for record i
RECURSIVE remind(_, _, _, _, _, _)
remind(appts, i, target_date, only_confirmed, oks, acc) ==
    IF i > Len(appts) THEN acc
    ELSE LET o == outcome(appts[i], target_date, only_confirmed)
             next ==
                 IF o = "other_date" THEN acc
                 ELSE IF o = "skipped_status"
                 THEN [acc EXCEPT !.skipped_status = @ + 1]
                 ELSE IF o = "skipped_no_phone"
                 THEN [acc EXCEPT !.skipped_no_phone = @ + 1]
                 ELSE [acc EXCEPT
                          !.calls = Append(@, [index |-> i,
                                               phone |-> phone_of(appts[i]),
                                               ok |-> oks[i]]),
                          !.sent_count = IF oks[i] THEN @ + 1 ELSE @]
         IN  remind(appts, i + 1, target_date, only_confirmed, oks, next)

\* lines 381-387: the target date of a reminder request
target_of(body, today) ==
    LET date_s == Get(body, "date", <<>>)
    IN  IF date_s # <<>> THEN fromisoformat_date(date_s) ELSE today

\* the records send_whatsapp_message is called for
called(file, body, today) ==
    {i \in 1..Len(file) :
        outcome(file[i], target_of(body, today),
                Get(body, "only_confirmed", FALSE)) = "send"}

\* lines 365-435; sends are the calls of send_whatsapp_message it makes
whatsapp_reminders(file, body, today, oks) ==
    LET only_confirmed == Get(body, "only_confirmed", FALSE)
        target_date == target_of(body, today)
        run == remind(file, 1, target_date, only_confirmed, oks,
                      [sent_count |-> 0, skipped_no_phone |-> 0,
                       skipped_status |-> 0, calls |-> <<>>])
    IN  IF target_date = NoDate
        THEN [response |-> [code |-> 400,
                            error |-> "Formato de fecha invalido (usar YYYY-MM-DD)"],
              sends |-> <<>>]
        ELSE [response |-> [code |-> 200,
                            date |-> target_date,
                            sent |-> run.sent_count,
                            skipped_no_phone |-> run.skipped_no_phone,
                            skipped_status |-> run.skipped_status,
                            total |-> Len(file)],
              sends |-> run.calls]

----------------------------------------------------------------------------
(* The requests served one at a time. *)

POST(body) ==
    LET r == appointments_collection(app_file, body)
    IN  /\ response' = r.response
        /\ app_file' = r.file
        /\ sends' = <<>>
        /\ UNCHANGED <<phoneVars, raceVars>>

PATCH(appt_id, payload) ==
    LET r == update_appointment(app_file, appt_id, payload)
    IN  /\ response' = r.response
        /\ app_file' = r.file
        /\ sends' = <<>>
        /\ UNCHANGED <<phoneVars, raceVars>>

Cleanup(body) ==
    LET r == cleanup_appointments(app_file, body)
    IN  /\ response' = r.response
        /\ app_file' = r.file
        /\ sends' = <<>>
        /\ UNCHANGED <<phoneVars, raceVars>>

\* The gateway answers each call with True or False: oks is one choice of
\* answers for the calls the request makes.
Reminders(body, today) ==
    \E oks \in [called(app_file, body, today) -> BOOLEAN] :
        LET r == whatsapp_reminders(app_file, body, today, oks)
        IN  /\ response' = r.response
            /\ sends' = r.sends
            /\ app_file' = app_file
            /\ UNCHANGED <<phoneVars, raceVars>>

Init ==
    /\ app_file = <<>>
    /\ response = [code |-> 0]
    /\ sends = <<>>
    /\ raw = <<>>
    /\ phone_norm = NoPhone
    /\ pc = <<>>
    /\ appointments = <<>>
    /\ data = <<>>
    /\ writers = <<>>

Next ==
    \/ \E body \in PostBodies : POST(body)
    \/ \E appt_id \in Ids, payload \in PatchPayloads : PATCH(appt_id, payload)
    \/ \E body \in CleanupBodies : Cleanup(body)

Spec == Init /\ [][Next]_vars

NextReminders ==
    \/ \E body \in ReminderPostBodies : POST(body)
    \/ \E body \in ReminderBodies, today \in Today : Reminders(body, today)

SpecReminders == Init /\ [][NextReminders]_vars

----------------------------------------------------------------------------
(* Properties of the handlers served one at a time. *)

Day(a) == parse_date_only(date_str(a))

\* the status a reader of the record sees: appt.get("status", "pendiente")
StatusOf(a) == Get(a, "status", "pendiente")

\* the stored records, not cancelled, with the day and the time of record a
InSlotOf(appts, a) ==
    {i \in 1..Len(appts) :
        /\ Day(appts[i]) = Day(a)
        /\ appts[i].time = a.time
        /\ StatusOf(appts[i]) # "cancelado"}

IdsOf(appts) == {appts[i].id : i \in 1..Len(appts)}

IsError(r) == r.code >= 400

\* C1: at most two records that are not cancelled share a calendar day and a
\* time; stated for the slots whose day parses and whose time is not empty.
C1_SlotCapacity ==
    \A i \in 1..Len(app_file) :
        (Day(app_file[i]) # NoDate /\ app_file[i].time # "")
            => Cardinality(InSlotOf(app_file, app_file[i])) <= 2

\* C2 as claimed: in every state, a complete booking whose date names a
\* calendar day is refused exactly when the file holds two or more records,
\* not cancelled, with its day and time.
C2_RefusedIffSlotHoldsTwo ==
    \A body \in PostBodies :
        (has_required(body) /\ Day(body) # NoDate)
            => (IsError(appointments_collection(app_file, body).response)
                  <=> Cardinality(InSlotOf(app_file, body)) >= 2)

\* C2 as amended: in every state, a complete booking is refused exactly when
\* its date parses, its time is not empty and the file holds two or more
\* records, not cancelled, with its day and time; the refusal is the
\* slot-full error, and a booking not refused is answered 201.
C2_RefusedIffTimedSlotHoldsTwo ==
    \A body \in PostBodies :
        has_required(body)
            => LET r == appointments_collection(app_file, body).response
               IN  /\ IsError(r)
                        <=> /\ Day(body) # NoDate
                            /\ body.time # ""
                            /\ Cardinality(InSlotOf(app_file, body)) >= 2
                   /\ IsError(r) => r.error = SlotFullError
                   /\ ~IsError(r) => r.code = 201

\* C2: a third booking was accepted into a slot (a day and a time) that holds
\* two earlier records, one of them cancelled.
C2_Witness ==
    /\ response.code = 201
    /\ Len(app_file) = 3
    /\ app_file[3].id = response.id
    /\ Day(app_file[3]) # NoDate /\ app_file[3].time # ""
    /\ \A i \in 1..2 : /\ Day(app_file[i]) = Day(app_file[3])
                       /\ app_file[i].time = app_file[3].time
    /\ Cardinality({i \in 1..2 : StatusOf(app_file[i]) = "cancelado"}) = 1
    /\ StatusOf(app_file[3]) # "cancelado"

\* C3: every stored record has a status, one of pendiente, confirmado,
\* cancelado.
C3_StatusEnumerated ==
    \A i \in 1..Len(app_file) :
        /\ "status" \in DOMAIN app_file[i]
        /\ app_file[i].status \in valid_status

\* the fields of the body are those of the record, which may have a status
\* and a normalised contact besides
HoldsBody(record, body) ==
    /\ \A k \in DOMAIN body : k \in DOMAIN record /\ record[k] = body[k]
    /\ DOMAIN record \subseteq DOMAIN body \cup {"status", "clientContactNormalized"}

\* C4: in every state, an accepted booking with a stored id replaces that
\* record where it stands and changes no other record and not the length;
\* one with a new id is appended, and every earlier record stays where it was.
C4_UpsertInPlace ==
    \A body \in PostBodies :
        LET r == appointments_collection(app_file, body)
        IN  r.response.code = 201
              => IF body.id \in IdsOf(app_file)
                 THEN /\ Len(r.file) = Len(app_file)
                      /\ \A i \in 1..Len(app_file) :
                            IF app_file[i].id = body.id
                            THEN HoldsBody(r.file[i], body)
                            ELSE r.file[i] = app_file[i]
                 ELSE /\ Len(r.file) = Len(app_file) + 1
                      /\ SubSeq(r.file, 1, Len(app_file)) = app_file
                      /\ HoldsBody(r.file[Len(r.file)], body)

\* C4: the last request was a booking that replaced the first of three
\* records.
C4_Witness ==
    /\ response.code = 201
    /\ Len(app_file) = 3
    /\ app_file[1].id = response.id

\* C5: a request answered with an error leaves the file as it was.
C5_NoMutationOnError ==
    [][IsError(response') => app_file' = app_file]_vars

\* C5: a booking was refused because its slot is full.
C5_Witness ==
    /\ IsError(response)
    /\ response.error = SlotFullError
    /\ Len(app_file) >= 2

\* the place of index i among the indices in keep
Rank(keep, i) == Cardinality({j \in keep : j <= i})

\* C6: in every state, a cleanup with a parsable cutoff removes the records
\* whose date parses to a day before the cutoff and no other; the rest stay
\* in their order, unmodified; removed + kept is the length before, kept the
\* length after.
C6_CleanupSweep ==
    \A body \in CleanupBodies :
        LET r == cleanup_appointments(app_file, body)
        IN  ~IsError(r.response)
              => LET limit == fromisoformat_date(body.before)
                     gone == {i \in 1..Len(app_file) :
                                Day(app_file[i]) # NoDate /\ Day(app_file[i]) < limit}
                     keep == (1..Len(app_file)) \ gone
                 IN  /\ Len(r.file) = Cardinality(keep)
                     /\ \A i \in keep : r.file[Rank(keep, i)] = app_file[i]
                     /\ r.response.removed = Cardinality(gone)
                     /\ r.response.removed + r.response.kept = Len(app_file)
                     /\ r.response.kept = Len(r.file)

\* C6: a cleanup removed one record and kept two: one whose date does not
\* parse and one dated 2025-11-01, which only the cutoff 2025-11-01 keeps.
C6_Witness ==
    /\ "removed" \in DOMAIN response
    /\ response.removed = 1
    /\ response.kept = 2
    /\ \E i, j \in 1..Len(app_file) :
          /\ Day(app_file[i]) = NoDate
          /\ Day(app_file[j]) = fromisoformat_date(Nov01)

\* C7: in every state and for every choice of the gateway's answers, a
\* reminder request puts each record in one class: its date is not the
\* target (no tally, no call); else its status skips it (cancelled, or not
\* confirmed when only_confirmed is set); else it has no phone; else the
\* gateway is called once for it, and sent counts the calls answered True.
C7_ReminderClasses ==
    \A body \in ReminderBodies, today \in Today :
      \A oks \in [1..Len(app_file) -> BOOLEAN] :
        LET r == whatsapp_reminders(app_file, body, today, oks)
            target == target_of(body, today)
            only == Get(body, "only_confirmed", FALSE)
            all == 1..Len(app_file)
            OnDate == {i \in all : Day(app_file[i]) # NoDate
                                   /\ Day(app_file[i]) = target}
            ByStatus == {i \in OnDate :
                            \/ StatusOf(app_file[i]) = "cancelado"
                            \/ only /\ StatusOf(app_file[i]) # "confirmado"}
            NoPhoneFor == {i \in OnDate \ ByStatus :
                            /\ Get(app_file[i], "clientContactNormalized", NoPhone) = NoPhone
                            /\ Filter(Get(app_file[i], "clientContact", <<>>), Digits) = <<>>}
            ToSend == (OnDate \ ByStatus) \ NoPhoneFor
        IN  ~IsError(r.response)
              => /\ r.response.skipped_status = Cardinality(ByStatus)
                 /\ r.response.skipped_no_phone = Cardinality(NoPhoneFor)
                 /\ Len(r.sends) = Cardinality(ToSend)
                 /\ {r.sends[k].index : k \in 1..Len(r.sends)} = ToSend
                 /\ \A k \in 1..Len(r.sends) : r.sends[k].ok = oks[r.sends[k].index]
                 /\ r.response.sent = Cardinality({i \in ToSend : oks[i]})
                 /\ \A k \in 1..Len(r.sends) :
                      StatusOf(app_file[r.sends[k].index]) # "cancelado"

\* C7: a reminder request sent one reminder, skipped one record for its
\* status and one for its missing phone.
C7_Witness ==
    /\ "sent" \in DOMAIN response
    /\ response.sent = 1
    /\ Len(sends) = 1
    /\ response.skipped_status = 1
    /\ response.skipped_no_phone = 1

\* what the response says of the request served: a 200 that returns a
\* record answers a status update, a 201 a booking, counts a cleanup
IsPatched(r, id)  == r.code = 200 /\ "id" \in DOMAIN r /\ r.id = id
IsBooked(r, id)   == r.code = 201 /\ r.id = id
IsCleanup(r)      == r.code = 200 /\ "removed" \in DOMAIN r

\* the pairs (i, j) of a stored record and the same record after the step,
\* where its status differs
StatusChanged(before, after) ==
    {<<i, j>> \in (1..Len(before)) \X (1..Len(after)) :
        /\ before[i].id = after[j].id
        /\ StatusOf(before[i]) # StatusOf(after[j])}

\* a status update changes the status of its record and nothing else
PatchFrame(before, after, id) ==
    /\ Len(after) = Len(before)
    /\ \A i \in 1..Len(before) :
          IF before[i].id = id
          THEN \A k \in DOMAIN before[i] \ {"status"} :
                 k \in DOMAIN after[i] /\ after[i][k] = before[i][k]
          ELSE after[i] = before[i]

\* C10 as claimed: the status of a stored record changes only in a status
\* update, a stored id leaves the file only in a cleanup, and a status update
\* changes the status of its record and nothing else.
C10_StatusChangesOnlyInPatch ==
    [][/\ \A c \in StatusChanged(app_file, app_file') :
            IsPatched(response', app_file[c[1]].id)
       /\ (IdsOf(app_file) \ IdsOf(app_file') # {}) => IsCleanup(response')
       /\ \A id \in Ids :
            IsPatched(response', id) => PatchFrame(app_file, app_file', id)]_vars

\* C10 as amended: the status of a stored record changes only in a status
\* update of that record or in an accepted booking with its id, which
\* replaces it; the rest as claimed.
C10_StatusChangesInPatchOrUpsert ==
    [][/\ \A c \in StatusChanged(app_file, app_file') :
            \/ IsPatched(response', app_file[c[1]].id)
            \/ IsBooked(response', app_file[c[1]].id)
       /\ (IdsOf(app_file) \ IdsOf(app_file') # {}) => IsCleanup(response')
       /\ \A id \in Ids :
            IsPatched(response', id) => PatchFrame(app_file, app_file', id)]_vars

\* C10: a status update has cancelled the second of three records.
C10_Witness ==
    /\ Len(app_file) = 3
    /\ IsPatched(response, app_file[2].id)
    /\ StatusOf(app_file[2]) = "cancelado"

----------------------------------------------------------------------------
(* normalize_phone applied to one argument. *)

PhoneAlphabet == {"0", "1", "4", "5", "9", "+", " "}

RECURSIVE StringsUpTo(_)
StringsUpTo(n) ==
    IF n = 0 THEN {<<>>}
    ELSE LET shorter == StringsUpTo(n - 1)
         IN  shorter \cup {Append(t, ch) : t \in shorter, ch \in PhoneAlphabet}

Local10 == <<"1", "1", "5", "9", "1", "2", "1", "3", "8", "4">>

\* every short string over the alphabet, and the numbers of the docstring of
\* twilio_test with their variants: local, with +549, with 0, with 00
PhoneInputs ==
    StringsUpTo(MaxPhoneLen)
    \cup { Local10,
           <<"+", "5", "4", "9">> \o Local10,
           <<"5", "4", "9">> \o Local10,
           <<"0">> \o Local10,
           <<"0", "0", "5", "4", "9">> \o Local10,
           <<"5", "4">> \o Local10 }

InitPhone ==
    /\ raw \in PhoneInputs
    /\ phone_norm = NoPhone
    /\ pc = "call"
    /\ app_file = <<>>
    /\ response = [code |-> 0]
    /\ sends = <<>>
    /\ appointments = <<>>
    /\ data = <<>>
    /\ writers = <<>>

Normalize ==
    /\ pc = "call"
    /\ phone_norm' = normalize_phone(raw)
    /\ pc' = "return"
    /\ UNCHANGED <<raw, storeVars, appointments, data, writers>>

\* twilio_test, line 451: the result is normalised again when it comes back
\* as the "phone" of a later request
Renormalize ==
    /\ pc = "return"
    /\ phone_norm # NoPhone
    /\ raw' = phone_norm
    /\ pc' = "call"
    /\ UNCHANGED <<phone_norm, storeVars, appointments, data, writers>>

NextPhone == Normalize \/ Renormalize

SpecPhone == InitPhone /\ [][NextPhone]_vars

\* the algorithm C8 gives for a digit string d
specified_result(d) ==
    IF startswith(d, <<"5", "4", "9">>) THEN d
    ELSE IF startswith(d, <<"5", "4">>)
    THEN LET rest == SubSeq(d, 3, Len(d))
         IN  IF startswith(rest, <<"9">>)
             THEN <<"5", "4">> \o rest
             ELSE <<"5", "4", "9">> \o rest
    ELSE <<"5", "4", "9">> \o d

\* C8: normalize_phone returns no result for an input without digits and
\* otherwise the result of the specified algorithm on the digits of the
\* input, so "1159121384" gives "5491159121384".
C8_NormalizeAsSpecified ==
    pc = "return" =>
        LET d == Filter(raw, Digits)
        IN  phone_norm = IF d = <<>> THEN NoPhone ELSE specified_result(d)


----------------------------------------------------------------------------
(* Two booking requests served at the same time.  Each runs                *)
(* appointments_collection in three steps that may interleave with the     *)
(* other's: load (line 146), capacity check (lines 152-190), upsert and    *)
(* save (lines 192-204).                                                   *)

Reqs == {1, 2}

\* what a sequential booking of the body leaves in an empty file
Booked(body) == upsert(<<>>, with_normalized(body))

SlotA(id) == Body(id, Oct15Z, "14:00", Phone11)
SlotB(id) == Put(Body(id, <<>>, "14:00", Phone11), "date", Nov01)

\* files the requests may find: empty, one place left in slot A, slot A full
RaceFiles ==
    { <<>>,
      Booked(SlotA(1)),
      upsert(Booked(SlotA(1)), with_normalized(SlotA(2))) }

RaceBodies == { SlotA(id) : id \in Ids } \cup { SlotB(id) : id \in Ids } \cup { Incomplete }

InitRace ==
    /\ app_file \in RaceFiles
    /\ response = [p \in Reqs |-> [code |-> 0]]
    /\ sends = <<>>
    /\ raw = <<>>
    /\ phone_norm = NoPhone
    /\ pc = [p \in Reqs |-> "load"]
    /\ appointments = [p \in Reqs |-> <<>>]
    /\ data = [p \in Reqs |-> <<>>]
    /\ writers = <<>>

\* lines 146-163
Load(p, body) ==
    /\ pc[p] = "load"
    /\ appointments' = [appointments EXCEPT ![p] = app_file]
    /\ IF ~has_required(body)
       THEN /\ data' = [data EXCEPT ![p] = body]
            /\ response' = [response EXCEPT
                                ![p] = [code |-> 400, error |-> "Datos incompletos"]]
            /\ pc' = [pc EXCEPT ![p] = "done"]
       ELSE /\ data' = [data EXCEPT ![p] = with_normalized(body)]
            /\ response' = response
            /\ pc' = [pc EXCEPT ![p] = "check"]
    /\ UNCHANGED <<app_file, sends, phoneVars, writers>>

\* lines 165-190
Check(p) ==
    /\ pc[p] = "check"
    /\ IF slot_full(appointments[p], data[p])
       THEN /\ response' = [response EXCEPT
                                ![p] = [code |-> 400, error |-> SlotFullError]]
            /\ pc' = [pc EXCEPT ![p] = "done"]
       ELSE /\ response' = response
            /\ pc' = [pc EXCEPT ![p] = "save"]
    /\ UNCHANGED <<app_file, sends, phoneVars, appointments, data, writers>>

\* written, with the record put into the file as it is at the save
written_Merged(p) == upsert(app_file, data[p])

\* lines 192-204: the list the request writes to the file
written(p) == upsert(appointments[p], data[p])

Save(p) ==
    /\ pc[p] = "save"
    /\ app_file' = written(p)
    /\ writers' = Append(writers, p)
    /\ response' = [response EXCEPT ![p] = [code |-> 201, id |-> data[p].id]]
    /\ pc' = [pc EXCEPT ![p] = "done"]
    /\ UNCHANGED <<sends, phoneVars, appointments, data>>

NextRace ==
    \/ \E p \in Reqs, body \in RaceBodies : Load(p, body)
    \/ \E p \in Reqs : Check(p)
    \/ \E p \in Reqs : Save(p)

SpecRace == InitRace /\ [][NextRace]_vars

\* the requests in the order of their saves
Earlier == writers[1]
Later   == writers[2]

\* both requests answered 201 after loading the same file, in which the slot
\* they book had one place left
BothPassedOnePlace ==
    /\ Len(writers) = 2
    /\ appointments[1] = appointments[2]
    /\ data[1].id # data[2].id
    /\ Day(data[1]) = Day(data[2]) /\ data[1].time = data[2].time
    /\ {data[1].id, data[2].id} \cap IdsOf(appointments[1]) = {}
    /\ Cardinality(InSlotOf(appointments[1], data[1])) = 1
    /\ \A p \in Reqs : response[p].code = 201

\* C9: once both requests have saved, the file is the list the later saver
\* wrote, its loaded list with its own record; when both loaded the same
\* list, without the earlier saver's record, that record is not in the file.
C9_LastWriterWins ==
    Len(writers) = 2 =>
        /\ app_file = upsert(appointments[Later], data[Later])
        /\ ( /\ appointments[Earlier] = appointments[Later]
             /\ data[Earlier].id # data[Later].id
             /\ data[Earlier].id \notin IdsOf(appointments[Later]) )
           => data[Earlier].id \notin IdsOf(app_file)

\* C9: both requests passed the check on the same loaded file with one place
\* left in their slot, both answered 201, and the file holds the later
\* saver's record but not the earlier saver's.
C9_Witness ==
    /\ BothPassedOnePlace
    /\ data[Later].id \in IdsOf(app_file)
    /\ data[Earlier].id \notin IdsOf(app_file)

====
